---- MODULE Spec2Model ----
(***************************************************************************)
(* Model of opentelemetry-instrumentation-fastapi_events: the              *)
(* FastAPIEventsInstrumentor install/uninstall lifecycle over the handler  *)
(* classes' method tables and the dispatcher module, and the three span    *)
(* wrappers (_handle_wrapper, _handle_many_wrapper, _dispatch_wrapper).    *)
(***************************************************************************)
EXTENDS FiniteSets, Integers, Sequences, TLC

VARIABLES
    mods,                   \* fastapi_events.handlers: the imported sub-modules, each the set of classes it holds
    tbl,                    \* patched object (class or the dispatcher module) -> attribute -> own entry [fn, layers]
    _instrumented_classes,  \* FastAPIEventsInstrumentor._instrumented_classes
    lifecycle,              \* the _instrument() and _uninstrument() runs so far, in order
    raised,                 \* did the last _uninstrument() run end by raising
    stack,                  \* the calls in flight, innermost last
    open,                   \* the tracer's current-span stack (spans opened, not yet ended)
    spans,                  \* spans ended since the latest outermost call or request began
    q,                      \* the event store of the request in flight
    req                     \* position of the end-to-end request

vars == <<mods, tbl, _instrumented_classes, lifecycle, raised,
          stack, open, spans, q, req>>

-----------------------------------------------------------------------------
(* Bounds *)

MaxModules == 2
MaxOps == 3
MaxBatch == 2

-----------------------------------------------------------------------------
(* The classes reachable from fastapi_events.handlers and their hierarchy *)

Base == "BaseEventHandler"

Handlers == {"AuditHandler", "EchoHandler", "LocalHandler", "RetryHandler"}

Classes == {"ABC", Base} \cup Handlers

Attrs == {"handle", "handle_many"}

\* getmembers() returns the members sorted by name
Rank ==
    [c \in Classes |->
        CASE c = "ABC" -> 1
          [] c = "AuditHandler" -> 2
          [] c = Base -> 3
          [] c = "EchoHandler" -> 4
          [] c = "LocalHandler" -> 5
          [] c = "RetryHandler" -> 6]

\* the direct base class; "object" ends the chain
Parent ==
    [c \in Classes \cup {"dispatcher"} |->
        CASE c = "AuditHandler" -> "LocalHandler"
          [] c = "RetryHandler" -> "LocalHandler"
          [] c = "LocalHandler" -> Base
          [] c = "EchoHandler" -> Base
          [] OTHER -> "object"]

RECURSIVE issubclass(_, _)
issubclass(c, b) ==
    IF c = b THEN TRUE
    ELSE IF c = "object" THEN FALSE
    ELSE issubclass(Parent[c], b)

NoEntry == [fn |-> "none", layers |-> 0]

\* the tables before any patching: BaseEventHandler defines handle (abstract)
\* and handle_many, LocalHandler and EchoHandler define handle, the subclasses
\* of LocalHandler inherit both; the dispatcher module holds the functions
\* _dispatch and dispatch
PristineTbl ==
    [c \in Classes \cup {"dispatcher"} |->
        IF c = "dispatcher"
        THEN [a \in {"_dispatch", "dispatch"} |-> [fn |-> c, layers |-> 0]]
        ELSE [a \in Attrs |->
                IF c = Base \/ (c \in {"LocalHandler", "EchoHandler"} /\ a = "handle")
                THEN [fn |-> c, layers |-> 0]
                ELSE NoEntry]]

\* the contents a handlers sub-module can have
ModuleChoices ==
    { {"ABC", Base, "EchoHandler"},
      {Base, "LocalHandler"},
      {"AuditHandler", Base, "LocalHandler", "RetryHandler"} }

RECURSIVE SortedMembers(_)
SortedMembers(S) ==
    IF S = {} THEN <<>>
    ELSE LET m == CHOOSE c \in S : \A d \in S : Rank[c] <= Rank[d]
         IN <<m>> \o SortedMembers(S \ {m})

\* attribute lookup along the MRO
RECURSIVE getattr(_, _, _)
getattr(t, c, a) ==
    IF c = "object" THEN NoEntry
    ELSE IF t[c][a].fn # "none" THEN t[c][a]
    ELSE getattr(t, Parent[c], a)

-----------------------------------------------------------------------------
(* Patching primitives *)

\* wrapt.wrap_function_wrapper(obj, name, wrapper): the attribute found on obj
\* (for a class, along its MRO) is wrapped and the wrapper is set on obj itself
wrap_function_wrapper(t, c, a) ==
    LET cur == getattr(t, c, a)
    IN [t EXCEPT ![c][a] = [fn |-> cur.fn, layers |-> cur.layers + 1]]

\* unwrap(obj, attr): sets obj.attr to the __wrapped__ of what getattr finds
\* (one layer less); signals an error when what it finds is not a wrapper
unwrap_silent(t, c, a) ==
    LET cur == getattr(t, c, a)
    IN IF cur.layers > 0
       THEN [t |-> [t EXCEPT ![c][a] = [fn |-> cur.fn, layers |-> cur.layers - 1]],
             ok |-> TRUE]
       ELSE [t |-> t, ok |-> TRUE]

unwrap(t, c, a) ==
    LET cur == getattr(t, c, a)
    IN IF cur.layers > 0
       THEN [t |-> [t EXCEPT ![c][a] = [fn |-> cur.fn, layers |-> cur.layers - 1]],
             ok |-> TRUE]
       ELSE [t |-> t, ok |-> FALSE]

-----------------------------------------------------------------------------
(* FastAPIEventsInstrumentor *)

\* the classes the two nested getmembers loops of _instrument visit and keep,
\* in visiting order
RECURSIVE Keep(_)
Keep(cs) ==
    IF cs = <<>> THEN <<>>
    ELSE (IF issubclass(Head(cs), Base) /\ Head(cs) # Base
          THEN <<Head(cs)>> ELSE <<>>) \o Keep(Tail(cs))

RECURSIVE Discovered(_)
Discovered(ms) ==
    IF ms = <<>> THEN <<>>
    ELSE Keep(SortedMembers(Head(ms))) \o Discovered(Tail(ms))

RECURSIVE WrapAll(_, _)
WrapAll(t, cs) ==
    IF cs = <<>> THEN t
    ELSE WrapAll(wrap_function_wrapper(
                     wrap_function_wrapper(t, Head(cs), "handle"),
                     Head(cs), "handle_many"),
                 Tail(cs))

\* the loop of _uninstrument; a raising unwrap ends it
RECURSIVE UnwrapAll(_, _)
UnwrapAll(t, cs) ==
    IF cs = <<>> THEN [t |-> t, ok |-> TRUE]
    ELSE LET u1 == unwrap(t, Head(cs), "handle")
             u2 == unwrap(u1.t, Head(cs), "handle_many")
         IN IF ~u1.ok THEN u1
            ELSE IF ~u2.ok THEN u2
            ELSE UnwrapAll(u2.t, Tail(cs))

\* no call and no request is in flight or under inspection (install and
\* uninstall do not run concurrently with calls)
Idle == stack = <<>> /\ req = "none" /\ spans = <<>>

Count(op) == Cardinality({i \in DOMAIN lifecycle : lifecycle[i] = op})

Installs == Count("instrument")

Uninstalls == Count("uninstrument")

_instrument_once ==
    /\ Idle
    /\ Len(lifecycle) < MaxOps
    /\ IF Installs = 0
       THEN /\ _instrumented_classes' = _instrumented_classes \o Discovered(mods)
            /\ tbl' = wrap_function_wrapper(WrapAll(tbl, Discovered(mods)),
                                            "dispatcher", "_dispatch")
       ELSE UNCHANGED <<_instrumented_classes, tbl>>
    /\ lifecycle' = Append(lifecycle, "instrument")
    /\ UNCHANGED <<mods, raised, stack, open, spans, q, req>>

_instrument ==
    /\ Idle
    /\ Len(lifecycle) < MaxOps
    /\ _instrumented_classes' = _instrumented_classes \o Discovered(mods)
    /\ tbl' = wrap_function_wrapper(WrapAll(tbl, Discovered(mods)),
                                    "dispatcher", "_dispatch")
    /\ lifecycle' = Append(lifecycle, "instrument")
    /\ UNCHANGED <<mods, raised, stack, open, spans, q, req>>

_uninstrument ==
    /\ Idle
    /\ Len(lifecycle) < MaxOps
    /\ LET u == UnwrapAll(tbl, _instrumented_classes)
           d == IF u.ok THEN unwrap(u.t, "dispatcher", "dispatch") ELSE u
       IN /\ tbl' = d.t
          /\ raised' = ~d.ok
    /\ lifecycle' = Append(lifecycle, "uninstrument")
    /\ UNCHANGED <<mods, _instrumented_classes, stack, open, spans, q, req>>

-----------------------------------------------------------------------------
(* Python values: a tagged sequence of strings *)

None == <<"None">>

Event(name) == <<"tuple", name, "payload">>

EmptyEvent == <<"tuple">>

Names == {"VISITOR_SPOTTED", "VISITOR_SPOTTED_HANDLED"}

Events == {EmptyEvent} \cup {Event(n) : n \in Names}

\* the lists of at most MaxBatch events (the wrapper does not look into them)
Batches ==
    UNION { { <<"list">> \o s : s \in [1..n -> {Event(m) : m \in Names}] } :
            n \in 0..MaxBatch }

NoArgs == [pos |-> <<>>, kw |-> {}]

\* kwargs.get(key) with its default
Get(kw, key, default) ==
    IF \E p \in kw : p[1] = key
    THEN (CHOOSE p \in kw : p[1] = key)[2]
    ELSE default

Ret(v) == [kind |-> "return", val |-> v]

Raise(e) == [kind |-> "raise", val |-> e]

Cancelled == [kind |-> "cancelled", val |-> "CancelledError"]

Pending == [kind |-> "pending", val |-> ""]

\* what an original coroutine can end with; a synchronous original cannot be
\* cancelled while awaited
AsyncOutcomes == {Ret("r0"), Ret("r1"), Raise("ValueError"), Cancelled}

SyncOutcomes == {Ret("r0"), Ret("r1"), Raise("ValueError")}

-----------------------------------------------------------------------------
(* The span wrappers: what one wrapper invocation does with the arguments it
   receives, up to the point where it delegates.  err is the failure raised
   before the span is opened ("" when none), span the span it opens, pass the
   arguments it hands to wrapped(). *)

_handle_wrapper_payload(args) ==
    LET event == IF args.pos # <<>> THEN args.pos[1]
                 ELSE Get(args.kw, "event", None)
    IN [err  |-> IF event = None THEN "TypeError"
                 ELSE IF Len(event) < 3 THEN "IndexError"
                 ELSE "",
        span |-> [name |-> <<"handling event ",
                             IF Len(event) >= 3 THEN event[3] ELSE "">>,
                  kind |-> "CONSUMER"],
        pass |-> [pos |-> <<event>>, kw |-> {}]]

_handle_wrapper(args) ==
    LET event == IF args.pos # <<>> THEN args.pos[1]
                 ELSE Get(args.kw, "event", None)
    IN [err  |-> IF event = None THEN "TypeError"
                 ELSE IF Len(event) < 2 THEN "IndexError"
                 ELSE "",
        span |-> [name |-> <<"handling event ",
                             IF Len(event) >= 2 THEN event[2] ELSE "">>,
                  kind |-> "CONSUMER"],
        pass |-> [pos |-> <<event>>, kw |-> {}]]

_handle_many_wrapper(args) ==
    LET events == IF args.pos # <<>> THEN args.pos[1]
                  ELSE Get(args.kw, "events", None)
    IN [err  |-> "",
        span |-> [name |-> <<"handling multiple events">>, kind |-> "CONSUMER"],
        pass |-> [pos |-> <<events>>, kw |-> {}]]

_dispatch_wrapper_dropkw(args) ==
    LET event_name == Get(args.kw, "event_name", "None")
    IN [err  |-> "",
        span |-> [name |-> <<"Event ", event_name, " dispatched">>,
                  kind |-> "PRODUCER"],
        pass |-> [pos |-> args.pos, kw |-> {}]]

_dispatch_wrapper(args) ==
    LET event_name == Get(args.kw, "event_name", "None")
    IN [err  |-> "",
        span |-> [name |-> <<"Event ", event_name, " dispatched">>,
                  kind |-> "PRODUCER"],
        pass |-> args]

Wrapper(target, args) ==
    CASE target = "handle" -> _handle_wrapper(args)
      [] target = "handle_many" -> _handle_many_wrapper(args)
      [] target = "_dispatch" -> _dispatch_wrapper(args)

-----------------------------------------------------------------------------
(* Calls.  A frame is one call of a patched attribute: the wrapper layers
   found on it are entered outermost first, then the original runs, then the
   layers are left innermost first. *)

Frame(target, cls, entry, args, would, script) ==
    [target |-> target, cls |-> cls, fn |-> entry.fn, args |-> args,
     cur |-> args, layers |-> entry.layers, entered |-> 0, phase |-> "enter",
     would |-> would, out |-> Pending, origRan |-> FALSE, origArgs |-> NoArgs,
     script |-> script, ip |-> 1]

Top == stack[Len(stack)]

SetTop(f) == [stack EXCEPT ![Len(stack)] = f]

\* the classes that exist in this process
Loaded == UNION {mods[i] : i \in DOMAIN mods}

\* how the original handle of the class defining it can end for an event:
\* LocalHandler.handle looks the registered handlers up by event[0], any other
\* original may do anything with its argument
OrigHandleOutcomes(fn, ev) ==
    IF fn = "LocalHandler" /\ Len(ev) < 2
    THEN {Raise("IndexError")}
    ELSE AsyncOutcomes

\* instance.handle(event) or instance.handle(event=event)
Call_handle ==
    /\ Idle
    /\ \E c \in Handlers \cap Loaded, ev \in Events, bykw \in BOOLEAN :
       \E w \in OrigHandleOutcomes(getattr(tbl, c, "handle").fn, ev) :
         stack' = <<Frame("handle", c, getattr(tbl, c, "handle"),
                          IF bykw THEN [pos |-> <<>>, kw |-> {<<"event", ev>>}]
                          ELSE [pos |-> <<ev>>, kw |-> {}],
                          w, FALSE)>>
    /\ spans' = <<>>
    /\ UNCHANGED <<mods, tbl, _instrumented_classes, lifecycle,
                   raised, open, q, req>>

\* instance.handle_many(events) or instance.handle_many(events=events)
Call_handle_many ==
    /\ Idle
    /\ \E c \in Handlers \cap Loaded, b \in Batches, bykw \in BOOLEAN,
          w \in AsyncOutcomes :
         stack' = <<Frame("handle_many", c, getattr(tbl, c, "handle_many"),
                          IF bykw THEN [pos |-> <<>>, kw |-> {<<"events", b>>}]
                          ELSE [pos |-> <<b>>, kw |-> {}],
                          w, FALSE)>>
    /\ spans' = <<>>
    /\ UNCHANGED <<mods, tbl, _instrumented_classes, lifecycle,
                   raised, open, q, req>>

DispatchArgs(name, bykw) ==
    IF bykw
    THEN [pos |-> <<>>, kw |-> {<<"event_name", name>>, <<"payload", "payload">>}]
    ELSE [pos |-> <<name, "payload">>, kw |-> {}]

\* the module global _dispatch, which dispatch() looks up at each call
DispatchEntry == getattr(tbl, "dispatcher", "_dispatch")

\* fastapi_events.dispatcher._dispatch(event_name=..., payload=...) as the
\* public dispatch() calls it, or called with positional arguments
Call__dispatch ==
    /\ Idle
    /\ \E n \in Names, bykw \in BOOLEAN, w \in SyncOutcomes :
         stack' = <<Frame("_dispatch", "dispatcher", DispatchEntry,
                          DispatchArgs(n, bykw), w, FALSE)>>
    /\ spans' = <<>>
    /\ UNCHANGED <<mods, tbl, _instrumented_classes, lifecycle,
                   raised, open, q, req>>

\* one wrapper layer runs up to its with statement: it raises before a span
\* exists, or opens its span
WrapperEnter ==
    /\ stack # <<>>
    /\ Top.phase = "enter"
    /\ Top.entered < Top.layers
    /\ LET w == Wrapper(Top.target, Top.cur)
       IN IF w.err # ""
          THEN /\ stack' = SetTop([Top EXCEPT !.phase = "exit", !.out = Raise(w.err)])
               /\ open' = open
          ELSE /\ stack' = SetTop([Top EXCEPT !.entered = @ + 1, !.cur = w.pass])
               /\ open' = Append(open, w.span)
    /\ UNCHANGED <<mods, tbl, _instrumented_classes, lifecycle,
                   raised, spans, q, req>>

\* the innermost wrapper calls wrapped(...), the original callable
Delegate ==
    /\ stack # <<>>
    /\ Top.phase = "enter"
    /\ Top.entered = Top.layers
    /\ stack' = SetTop([Top EXCEPT !.phase = "orig", !.origRan = TRUE,
                                   !.origArgs = Top.cur])
    /\ UNCHANGED <<mods, tbl, _instrumented_classes, lifecycle,
                   raised, open, spans, q, req>>

\* the original returns, raises, or is cancelled while awaited
OrigRun ==
    /\ stack # <<>>
    /\ Top.phase = "orig"
    /\ ~Top.script
    /\ stack' = SetTop([Top EXCEPT !.phase = "exit", !.out = Top.would])
    /\ UNCHANGED <<mods, tbl, _instrumented_classes, lifecycle,
                   raised, open, spans, q, req>>

\* leaving the with block of one wrapper layer ends its span on every exit path
close_span_on_return(frame) == frame.out.kind = "return"

close_span(frame) == TRUE

WrapperExit ==
    /\ stack # <<>>
    /\ Top.phase = "exit"
    /\ Top.entered > 0
    /\ stack' = SetTop([Top EXCEPT !.entered = @ - 1])
    /\ IF close_span(Top)
       THEN /\ open' = SubSeq(open, 1, Len(open) - 1)
            /\ spans' = Append(spans, [name |-> open[Len(open)].name,
                                       kind |-> open[Len(open)].kind,
                                       status |-> Top.out.kind])
       ELSE UNCHANGED <<open, spans>>
    /\ UNCHANGED <<mods, tbl, _instrumented_classes, lifecycle,
                   raised, q, req>>

\* the outermost call hands its outcome to the caller
Return ==
    /\ Len(stack) = 1
    /\ req = "none"
    /\ Top.phase = "exit"
    /\ Top.entered = 0
    /\ stack' = <<>>
    /\ UNCHANGED <<mods, tbl, _instrumented_classes, lifecycle,
                   raised, open, spans, q, req>>

\* the span exporter is cleared before the next observation
ClearSpans ==
    /\ stack = <<>>
    /\ req = "none"
    /\ spans # <<>>
    /\ spans' = <<>>
    /\ UNCHANGED <<mods, tbl, _instrumented_classes, lifecycle,
                   raised, stack, open, q, req>>

-----------------------------------------------------------------------------
(* The end-to-end run of tests/test_instrumentation.py: the index route
   dispatches VISITOR_SPOTTED inside a "handling request" span, the middleware
   delivers the stored events to the LocalHandler instance, whose registered
   handler for VISITOR_SPOTTED dispatches VISITOR_SPOTTED_HANDLED. *)

\* how Python binds the first parameter of the original, named key
Param(args, key) ==
    IF args.pos # <<>> THEN args.pos[1] ELSE Get(args.kw, key, None)

\* index(): opens the server span and calls dispatch("VISITOR_SPOTTED")
Request ==
    /\ stack = <<>>
    /\ req \in {"none", "done"}
    /\ "LocalHandler" \in Loaded
    /\ req' = "route"
    /\ q' = <<>>
    /\ spans' = <<>>
    /\ open' = <<[name |-> <<"handling request">>, kind |-> "SERVER"]>>
    /\ stack' = <<Frame("_dispatch", "dispatcher", DispatchEntry,
                        DispatchArgs("VISITOR_SPOTTED", TRUE), Ret("None"), TRUE)>>
    /\ UNCHANGED <<mods, tbl, _instrumented_classes, lifecycle,
                   raised>>

\* the original _dispatch: the event goes to the event store
Orig__dispatch ==
    /\ stack # <<>>
    /\ Top.phase = "orig" /\ Top.script /\ Top.target = "_dispatch"
    /\ q' = Append(q, Event(Param(Top.origArgs, "event_name")))
    /\ stack' = SetTop([Top EXCEPT !.phase = "exit", !.out = Top.would])
    /\ UNCHANGED <<mods, tbl, _instrumented_classes, lifecycle,
                   raised, open, spans, req>>

\* the original BaseEventHandler.handle_many: self.handle(event) for each event
Orig_handle_many ==
    /\ stack # <<>>
    /\ Top.phase = "orig" /\ Top.script /\ Top.target = "handle_many"
    /\ LET events == Param(Top.origArgs, "events")
       IN IF Top.ip < Len(events)
          THEN stack' = Append(stack,
                          Frame("handle", Top.cls, getattr(tbl, Top.cls, "handle"),
                                [pos |-> <<events[Top.ip + 1]>>, kw |-> {}],
                                Ret("None"), TRUE))
          ELSE stack' = SetTop([Top EXCEPT !.phase = "exit", !.out = Top.would])
    /\ UNCHANGED <<mods, tbl, _instrumented_classes, lifecycle,
                   raised, open, spans, q, req>>

\* the original LocalHandler.handle: runs the handler registered for event[0];
\* handle_visitor_spotted calls dispatch("VISITOR_SPOTTED_HANDLED"),
\* handle_visitor_spotted_handled does nothing
Orig_handle ==
    /\ stack # <<>>
    /\ Top.phase = "orig" /\ Top.script /\ Top.target = "handle"
    /\ LET event == Param(Top.origArgs, "event")
       IN IF event[2] = "VISITOR_SPOTTED" /\ Top.ip = 1
          THEN stack' = Append(stack,
                          Frame("_dispatch", "dispatcher", DispatchEntry,
                                DispatchArgs("VISITOR_SPOTTED_HANDLED", TRUE),
                                Ret("None"), TRUE))
          ELSE stack' = SetTop([Top EXCEPT !.phase = "exit", !.out = Top.would])
    /\ UNCHANGED <<mods, tbl, _instrumented_classes, lifecycle,
                   raised, open, spans, q, req>>

\* a nested call hands its outcome to the original that made it
ReturnNested ==
    /\ Len(stack) > 1
    /\ Top.phase = "exit"
    /\ Top.entered = 0
    /\ LET caller == stack[Len(stack) - 1]
           rest == SubSeq(stack, 1, Len(stack) - 1)
       IN stack' = [rest EXCEPT ![Len(rest)] =
                        IF Top.out.kind = "return"
                        THEN [caller EXCEPT !.ip = @ + 1]
                        ELSE [caller EXCEPT !.phase = "exit", !.out = Top.out]]
    /\ UNCHANGED <<mods, tbl, _instrumented_classes, lifecycle,
                   raised, open, spans, q, req>>

\* dispatch() returned to index(): the with block of the server span ends
RouteEnd ==
    /\ Len(stack) = 1
    /\ req = "route"
    /\ Top.phase = "exit"
    /\ Top.entered = 0
    /\ stack' = <<>>
    /\ open' = <<>>
    /\ spans' = Append(spans, [name |-> open[1].name, kind |-> open[1].kind,
                               status |-> Top.out.kind])
    /\ req' = "deliver"
    /\ UNCHANGED <<mods, tbl, _instrumented_classes, lifecycle,
                   raised, q>>

\* the middleware hands the stored events to handler.handle_many(events=...)
Deliver ==
    /\ stack = <<>>
    /\ req \in {"deliver", "drain"}
    /\ q # <<>>
    /\ stack' = <<Frame("handle_many", "LocalHandler",
                        getattr(tbl, "LocalHandler", "handle_many"),
                        [pos |-> <<>>, kw |-> {<<"events", <<"list">> \o q>>}],
                        Ret("None"), TRUE)>>
    /\ q' = <<>>
    /\ req' = "drain"
    /\ UNCHANGED <<mods, tbl, _instrumented_classes, lifecycle,
                   raised, open, spans>>

\* an event dispatched by a handler is handed to handler.handle(event) directly
DeliverTask ==
    /\ stack = <<>>
    /\ req = "drain"
    /\ q # <<>>
    /\ stack' = <<Frame("handle", "LocalHandler",
                        getattr(tbl, "LocalHandler", "handle"),
                        [pos |-> <<Head(q)>>, kw |-> {}], Ret("None"), TRUE)>>
    /\ q' = Tail(q)
    /\ UNCHANGED <<mods, tbl, _instrumented_classes, lifecycle,
                   raised, open, spans, req>>

\* a delivery call ended
DeliverEnd ==
    /\ Len(stack) = 1
    /\ req = "drain"
    /\ Top.phase = "exit"
    /\ Top.entered = 0
    /\ stack' = <<>>
    /\ UNCHANGED <<mods, tbl, _instrumented_classes, lifecycle,
                   raised, open, spans, q, req>>

\* nothing is left to deliver: client.get("/") returns
RequestDone ==
    /\ stack = <<>>
    /\ req = "drain"
    /\ q = <<>>
    /\ req' = "done"
    /\ UNCHANGED <<mods, tbl, _instrumented_classes, lifecycle,
                   raised, stack, open, spans, q>>

-----------------------------------------------------------------------------

Envs == UNION { [1..n -> ModuleChoices] : n \in 1..MaxModules }

Init ==
    /\ mods \in Envs
    /\ tbl = PristineTbl
    /\ _instrumented_classes = <<>>
    /\ lifecycle = <<>>
    /\ raised = FALSE
    /\ stack = <<>>
    /\ open = <<>>
    /\ spans = <<>>
    /\ q = <<>>
    /\ req = "none"

Next ==
    \/ _instrument
    \/ _uninstrument
    \/ Call_handle
    \/ Call_handle_many
    \/ Call__dispatch
    \/ WrapperEnter
    \/ Delegate
    \/ OrigRun
    \/ WrapperExit
    \/ Return
    \/ ClearSpans

Spec == Init /\ [][Next]_vars

NextE2E ==
    \/ _instrument
    \/ _uninstrument
    \/ Request
    \/ WrapperEnter
    \/ Delegate
    \/ Orig__dispatch
    \/ Orig_handle_many
    \/ Orig_handle
    \/ WrapperExit
    \/ ReturnNested
    \/ RouteEnd
    \/ Deliver
    \/ DeliverTask
    \/ DeliverEnd
    \/ RequestDone

SpecE2E == Init /\ [][NextE2E]_vars

-----------------------------------------------------------------------------
(* Properties *)

Recorded == {_instrumented_classes[i] : i \in DOMAIN _instrumented_classes}

\* a direct call has run to its end and is about to return to its caller
CallDone ==
    /\ Len(stack) = 1
    /\ req = "none"
    /\ Top.phase = "exit"
    /\ Top.entered = 0

NoDuplicates(seq) == \A i, j \in DOMAIN seq : i # j => seq[i] # seq[j]

SpanNames == {spans[i].name : i \in DOMAIN spans}

Original(obj, a) == getattr(tbl, obj, a) = getattr(PristineTbl, obj, a)

\* C1: after instrument() then uninstrument(), dispatcher._dispatch is the
\* original function again, and a dispatch made then opens no span.
C1_DispatchRestored ==
    lifecycle = <<"instrument", "uninstrument">> =>
        /\ Original("dispatcher", "_dispatch")
        /\ (CallDone /\ Top.target = "_dispatch") => spans = <<>>

\* C2: after instrument() then uninstrument(), handle and handle_many of every
\* recorded class reach the original callable and a call of them produces no
\* span, whatever the discovered classes and their discovery order.
C2_HandlersRestored ==
    lifecycle = <<"instrument", "uninstrument">> =>
        /\ \A c \in Recorded, a \in Attrs : Original(c, a)
        /\ (CallDone /\ Top.target \in Attrs /\ Top.cls \in Recorded) => spans = <<>>

\* C3: after instrument(), one handle(event) on an instance of a discovered
\* class produces exactly one CONSUMER span "handling event <event[0]>", one
\* handle_many(events) with a non-empty batch exactly one CONSUMER span
\* "handling multiple events"; the original runs with the same argument and
\* its outcome is the call's outcome.
C3_OneSpanPerHandlerCall ==
    (/\ lifecycle = <<"instrument">>
     /\ CallDone
     /\ Top.target \in Attrs
     /\ Top.cls \in Recorded
     /\ Len(Param(Top.args, IF Top.target = "handle" THEN "event" ELSE "events")) >= 2)
    =>
        LET key == IF Top.target = "handle" THEN "event" ELSE "events"
            arg == Param(Top.args, key)
        IN /\ Len(spans) = 1
           /\ spans[1].kind = "CONSUMER"
           /\ spans[1].name = IF Top.target = "handle"
                              THEN <<"handling event ", arg[2]>>
                              ELSE <<"handling multiple events">>
           /\ Top.origRan
           /\ Param(Top.origArgs, key) = arg
           /\ Top.out = Top.would

\* the event name the caller of _dispatch passed
CallerEventName == Param(Top.args, "event_name")

DispatchSpanAsDocumented ==
    /\ Len(spans) = 1
    /\ spans[1].kind = "PRODUCER"
    /\ spans[1].name = <<"Event ", CallerEventName, " dispatched">>
    /\ Top.origRan
    /\ Top.origArgs = Top.args
    /\ Top.out = Top.would

C5_EndToEndSpans ==
    (req = "done" /\ Installs >= 1 /\ Uninstalls = 0) =>
        { <<"handling event ", "VISITOR_SPOTTED">>,
          <<"handling event ", "VISITOR_SPOTTED_HANDLED">>,
          <<"handling multiple events">>,
          <<"Event ", "VISITOR_SPOTTED", " dispatched">> } \subseteq SpanNames

C5_Witness ==
    /\ req = "done"
    /\ lifecycle = <<"instrument">>
    /\ Len(spans) >= 4

AlreadyRestored ==
    \E c \in Recorded, a \in Attrs : getattr(tbl, c, a).layers = 0

C8_RecordedOnce ==
    lifecycle = <<"instrument">> =>
        /\ NoDuplicates(_instrumented_classes)
        /\ Base \notin Recorded
        /\ tbl[Base] = PristineTbl[Base]

\* C9: a second install without an uninstall in between appends every
\* discovered class again and wraps handle, handle_many and _dispatch again;
\* after a following uninstall not every patched target is its original.
C9_DoubleInstall ==
    /\ lifecycle = <<"instrument", "instrument">> =>
          /\ _instrumented_classes = Discovered(mods) \o Discovered(mods)
          /\ \A c \in Recorded, a \in Attrs : tbl[c][a].layers >= 2
          /\ tbl["dispatcher"]["_dispatch"].layers = 2
    /\ lifecycle = <<"instrument", "instrument", "uninstrument">> =>
          ~ (/\ Original("dispatcher", "_dispatch")
             /\ \A c \in Recorded, a \in Attrs : Original(c, a))

C9_Witness ==
    /\ lifecycle = <<"instrument", "instrument", "uninstrument">>
    /\ Recorded # {}

\* C10: whatever the arguments and however they are passed, an instrumented
\* call ends as the original called with the same arguments ends.
C10_Transparent ==
    CallDone => Top.out = Top.would

====
